---- MODULE Spec2Model ----
(***************************************************************************)
(* Registration numbers of landing.models.Registration.                    *)
(*                                                                         *)
(* A registration_number is a Python str; it is modelled as a sequence of  *)
(* one-character strings so that str.split, int() and the format           *)
(* specification 04d are computed character by character.                  *)
(*                                                                         *)
(* Registration.save touches the database twice, and other requests can    *)
(* run between the two: the query for the latest row (line 492), after     *)
(* which the number is computed locally (lines 493-501), and Model.save    *)
(* (line 502), which stamps created_at and sends the INSERT or UPDATE to   *)
(* the database, where the unique constraint of line 478 is enforced.      *)
(* A request is therefore two steps: one of Create, Import, Resave, which  *)
(* builds or reads the instance and runs save up to line 501, and          *)
(* SuperSave, which runs line 502 and ends the request.                    *)
(*                                                                         *)
(* created_at is stamped from a clock that advances with every insert, so  *)
(* no two rows share a created_at and the latest row is well defined.      *)
(***************************************************************************)
EXTENDS Integers, Sequences, FiniteSets, TLC

\* ---------------------------------------------------------------- bounds

\* Number of requests that can be in flight at the same time.
NumProcs == 2

\* Spec: the rows inserted so far and the requests in flight are together at
\* most this many.
MaxClock == 3

\* SeqSpec: number of registrations created one after another.
MaxSeq == 24

\* TableSpec: number of rows of the tables the allocator is applied to.
MaxRows == 2

Procs == 1..NumProcs

\* Dates are the days 1..MaxDate.
MaxDate == 3

\* ------------------------------------------------------------ characters

Digits == <<"0", "1", "2", "3", "4", "5", "6", "7", "8", "9">>

DigitChars == {Digits[i] : i \in 1..10}

DigitVal(c) == (CHOOSE i \in 1..10 : Digits[i] = c) - 1

\* The literal text "TCP2025" of the f-string.
PREFIX == <<"T", "C", "P", "2", "0", "2", "5">>

\* ------------------------------------------------------- str.split, int()

\* Positions of the separator "-" in s.
DashPositions(s) == {i \in 1..Len(s) : s[i] = "-"}

WholeText(s) == s

\* s.split("-")[-1]: the text after the last "-", the whole of s without one.
LastSegment(s) ==
    IF DashPositions(s) = {}
    THEN s
    ELSE LET last == CHOOSE i \in DashPositions(s) :
                         \A j \in DashPositions(s) : j <= i
         IN SubSeq(s, last + 1, Len(s))

\* str.strip() as int() applies it: leading and trailing blanks removed.
RECURSIVE StripLeft(_)
StripLeft(s) == IF s # <<>> /\ Head(s) = " " THEN StripLeft(Tail(s)) ELSE s

RECURSIVE StripRight(_)
StripRight(s) ==
    IF s # <<>> /\ s[Len(s)] = " "
    THEN StripRight(SubSeq(s, 1, Len(s) - 1))
    ELSE s

Strip(s) == StripRight(StripLeft(s))

HasSign(s) == s # <<>> /\ Head(s) \in {"+", "-"}

\* The literal without its sign.
Unsigned(s) == IF HasSign(s) THEN Tail(s) ELSE s

\* Digits, with single underscores allowed between digits.
IsDigitGroup(u) ==
    /\ u # <<>>
    /\ \A i \in 1..Len(u) : u[i] \in DigitChars \cup {"_"}
    /\ u[1] # "_"
    /\ u[Len(u)] # "_"
    /\ \A i \in 1..(Len(u) - 1) : ~(u[i] = "_" /\ u[i + 1] = "_")

\* int(s) returns a value (otherwise it raises ValueError).
IntParses(s) == IsDigitGroup(Unsigned(Strip(s)))

RECURSIVE DigitsValue(_, _)
DigitsValue(u, acc) ==
    IF u = <<>>
    THEN acc
    ELSE IF Head(u) = "_"
         THEN DigitsValue(Tail(u), acc)
         ELSE DigitsValue(Tail(u), 10 * acc + DigitVal(Head(u)))

\* The value of int(s) when IntParses(s).
IntValue(s) ==
    LET t == Strip(s)
        v == DigitsValue(Unsigned(t), 0)
    IN IF HasSign(t) /\ Head(t) = "-" THEN 0 - v ELSE v

\* ------------------------------------------------------------ format 04d

RECURSIVE DecimalDigits(_)
DecimalDigits(n) ==
    IF n < 10
    THEN <<Digits[n + 1]>>
    ELSE Append(DecimalDigits(n \div 10), Digits[(n % 10) + 1])

RECURSIVE ZeroPad(_, _)
ZeroPad(d, width) == IF Len(d) >= width THEN d ELSE ZeroPad(<<"0">> \o d, width)

Format04dTruncating(n) == ZeroPad(DecimalDigits(n % 10000), 4)

\* format(n, "04d"): the sign counts in the width of 4.
Format04d(n) ==
    IF n < 0
    THEN <<"-">> \o ZeroPad(DecimalDigits(0 - n), 3)
    ELSE ZeroPad(DecimalDigits(n), 4)

\* f"TCP2025-{new_num:04d}"
FormatNumber(new_num) == PREFIX \o <<"-">> \o Format04d(new_num)

\* ----------------------------------------------------------------- state

VARIABLES
    store,      \* the rows of the registration table
    clock,      \* the next value timezone.now() stamps into created_at
    pc,         \* per request: "super_save" between lines 501 and 502 of
                \* Registration.save, else idle or how its last save ended
    inst,       \* per request: the Registration instance (self)
    adding,     \* per request: self._state.adding, no row was read for self
    last_reg,   \* per request: the local last_reg, {} for None
    new_num,    \* per request: the local new_num, -1 while it is unbound
    issued,     \* history: every registration_number a row was inserted with
    newsletter, \* the rows of the newsletter table
    nl_email,   \* per request: the email NewsletterForm cleaned, <<>> if none
    singletons, \* per singleton model: the number of rows of its table
    add_model,  \* per request: the model whose admin add view it is in
    message,    \* per request: the count a bulk action reported, -1 if none
    form        \* a bound RegistrationForm: its data, and what
                \* full_clean has done so far

\* The state outside the registration table and its requests.
site == <<newsletter, nl_email, singletons, add_model, message, form>>

vars == <<store, clock, pc, inst, adding, last_reg, new_num, issued,
          newsletter, nl_email, singletons, add_model, message, form>>

\* The models whose admin allows one row only.
SingletonModels == {"EventConfiguration", "AboutSection"}

\* No form is bound.
NoForm ==
    [phone |-> <<>>, arrival_date |-> 0, departure_date |-> 0,
     step |-> "unbound", errors |-> {}, cleaned_phone |-> <<>>]

\* The other tables are empty, no request is in their views.
SiteInit ==
    /\ newsletter = {}
    /\ nl_email = [p \in Procs |-> <<>>]
    /\ singletons = [m \in SingletonModels |-> 0]
    /\ add_model = [p \in Procs |-> "none"]
    /\ message = [p \in Procs |-> -1]
    /\ form = NoForm

\* STATUS_CHOICES
Statuses == {"pending", "approved", "rejected", "waitlist"}

\* A new instance: the field defaults; id (uuid.uuid4) and created_at
\* (auto_now_add) are 0 until the row is inserted. The email is blank where
\* no form supplies it.
NewInstance(number) ==
    [id |-> 0, created_at |-> 0, registration_number |-> number,
     status |-> "pending", email |-> <<>>]

\* No instance: the request holds none before it starts and after it ends.
NoInstance == NewInstance(<<>>)

\* Registration numbers supplied with the record instead of generated:
\* "TCP2025-", "garbage" and "TCP2025-0007".
HandSupplied ==
    { PREFIX \o <<"-">>,
      <<"g", "a", "r", "b", "a", "g", "e">>,
      PREFIX \o <<"-", "0", "0", "0", "7">> }

Running(p) == pc[p] = "super_save"

\* A further request may start.
MayStart == clock + Cardinality({q \in Procs : Running(q)}) <= MaxClock

\* Registration.objects.order_by("-created_at").first(): {} for None.
LatestByAscending(rows) ==
    {r \in rows : \A o \in rows : o.created_at >= r.created_at}

Latest(rows) ==
    {r \in rows : \A o \in rows : o.created_at <= r.created_at}

\* if not self.registration_number
NeedsNumberAlways(instance) == TRUE

NeedsNumber(instance) == instance.registration_number = <<>>

\* last_reg, which is None or a row.
IsNone(last) == last = {}

RowOf(last) == CHOOSE r \in last : TRUE

\* One more than the count of the numbers ever inserted.
NewNumFromIssued(last) == Cardinality(issued) + 1

\* The numbers of the requests in flight are skipped.
NewNumReserving(last) ==
    Cardinality({q \in Procs : pc[q] = "super_save"}) +
    ( IF ~IsNone(last) /\ RowOf(last).registration_number # <<>>
      THEN LET seg == LastSegment(RowOf(last).registration_number)
           IN IF IntParses(seg) THEN IntValue(seg) + 1 ELSE 1
      ELSE 1 )

\* The fallback of the except branch is the number of rows plus one.
NewNumExceptCount(last) ==
    IF ~IsNone(last) /\ RowOf(last).registration_number # <<>>
    THEN LET seg == LastSegment(RowOf(last).registration_number)
         IN IF IntParses(seg) THEN IntValue(seg) + 1
            ELSE Cardinality(store) + 1
    ELSE 1

NewNumNoIncrement(last) ==
    IF ~IsNone(last) /\ RowOf(last).registration_number # <<>>
    THEN LET seg == LastSegment(RowOf(last).registration_number)
         IN IF IntParses(seg) THEN IntValue(seg) ELSE 1
    ELSE 1

NewNumFromZero(last) ==
    IF ~IsNone(last) /\ RowOf(last).registration_number # <<>>
    THEN LET seg == LastSegment(RowOf(last).registration_number)
         IN IF IntParses(seg) THEN IntValue(seg) + 1 ELSE 1
    ELSE 0

NewNumExceptZero(last) ==
    IF ~IsNone(last) /\ RowOf(last).registration_number # <<>>
    THEN LET seg == LastSegment(RowOf(last).registration_number)
         IN IF IntParses(seg) THEN IntValue(seg) + 1 ELSE 0
    ELSE 1

\* Lines 493-500, the value bound to new_num:
\*   if last_reg and last_reg.registration_number:
\*       try: new_num = int(last_reg.registration_number.split("-")[-1]) + 1
\*       except: new_num = 1
\*   else: new_num = 1
NewNum(last) ==
    IF ~IsNone(last) /\ RowOf(last).registration_number # <<>>
    THEN LET seg == LastSegment(RowOf(last).registration_number)
         IN IF IntParses(seg) THEN IntValue(seg) + 1 ELSE 1
    ELSE 1

\* unique=True: the database refuses a row whose registration_number another
\* row holds.
UniqueIgnored(rows, row) == FALSE

UniqueViolation(rows, row) ==
    \E r \in rows :
        r.id # row.id /\ r.registration_number = row.registration_number

Init ==
    /\ store = {}
    /\ clock = 1
    /\ pc = [p \in Procs |-> "idle"]
    /\ inst = [p \in Procs |-> NoInstance]
    /\ adding = [p \in Procs |-> TRUE]
    /\ last_reg = [p \in Procs |-> {}]
    /\ new_num = [p \in Procs |-> -1]
    /\ issued = {}
    /\ SiteInit

\* ------------------------------------------------------------- operations

\* Registration.save, lines 490-501, called on `instance` by request p: the
\* number is generated when the instance has none. The request then stands
\* before line 502.
Save(p, instance, isNew) ==
    /\ ~Running(p)
    /\ pc' = [pc EXCEPT ![p] = "super_save"]
    /\ adding' = [adding EXCEPT ![p] = isNew]
    /\ IF NeedsNumber(instance)
       THEN /\ last_reg' = [last_reg EXCEPT ![p] = Latest(store)]
            /\ new_num' = [new_num EXCEPT ![p] = NewNum(Latest(store))]
            /\ inst' = [inst EXCEPT ![p] =
                            [instance EXCEPT !.registration_number =
                                FormatNumber(NewNum(Latest(store)))]]
       ELSE /\ last_reg' = [last_reg EXCEPT ![p] = {}]
            /\ new_num' = [new_num EXCEPT ![p] = -1]
            /\ inst' = [inst EXCEPT ![p] = instance]
    /\ UNCHANGED <<store, clock, issued>>
    /\ UNCHANGED site

\* RegistrationForm: registration_number is not a field of the form, the
\* instance is saved without one.
Create(p) ==
    /\ MayStart
    /\ Save(p, NewInstance(<<>>), TRUE)

\* RegistrationResource: an imported row brings its registration_number.
Import(p) ==
    /\ MayStart
    /\ \E number \in HandSupplied : Save(p, NewInstance(number), TRUE)

\* RegistrationAdmin change view: a row is read and saved again.
Resave(p) ==
    /\ MayStart
    /\ \E r \in store : Save(p, r, FALSE)

\* What Model.save writes: the row takes the place of the row with its
\* primary key, if any; every other row stays as it is.
WrittenRestamping(rows, row) ==
    {[r EXCEPT !.created_at = row.created_at] : r \in {o \in rows : o.id # row.id}}
        \cup {row}

Written(rows, row) == {r \in rows : r.id # row.id} \cup {row}

\* Line 502 is reached straight from line 501: the request that stands
\* before Model.save calls it, whatever the other requests do.
ProceedsAlone(p) ==
    pc[p] = "super_save" /\ \A q \in Procs \ {p} : pc[q] # "super_save"

Proceeds(p) == pc[p] = "super_save"

\* Registration.save, line 502: Model.save. A row read from the table is
\* updated where its primary key is found; otherwise the row is inserted with
\* created_at stamped (auto_now_add) and, when new, its primary key drawn
\* (uuid.uuid4, here the stamp, which no other row holds). The unique
\* constraint rejects the write with IntegrityError. The request ends here,
\* and its instance with it.
SuperSave(p) ==
    /\ Proceeds(p)
    /\ LET found == ~adding[p] /\ \E r \in store : r.id = inst[p].id
           row == IF found
                  THEN inst[p]
                  ELSE [inst[p] EXCEPT
                            !.created_at = clock,
                            !.id = IF adding[p] THEN clock ELSE @]
       IN IF UniqueViolation(store, row)
          THEN /\ pc' = [pc EXCEPT ![p] = "failed"]
               /\ UNCHANGED <<store, clock, issued>>
          ELSE /\ pc' = [pc EXCEPT ![p] = "done"]
               /\ store' = Written(store, row)
               /\ clock' = IF found THEN clock ELSE clock + 1
               /\ issued' = IF found THEN issued
                            ELSE issued \cup {row.registration_number}
    /\ inst' = [inst EXCEPT ![p] = NoInstance]
    /\ adding' = [adding EXCEPT ![p] = TRUE]
    /\ last_reg' = [last_reg EXCEPT ![p] = {}]
    /\ new_num' = [new_num EXCEPT ![p] = -1]
    /\ UNCHANGED site

\* RegistrationAdmin delete: the row is removed.
Delete ==
    /\ \E r \in store : store' = store \ {r}
    /\ UNCHANGED <<clock, pc, inst, adding, last_reg, new_num, issued>>
    /\ UNCHANGED site

Next ==
    \/ \E p \in Procs : Create(p)
    \/ \E p \in Procs : Import(p)
    \/ \E p \in Procs : Resave(p)
    \/ \E p \in Procs : SuperSave(p)
    \/ Delete

Spec == Init /\ [][Next]_vars

\* Registrations created strictly one after another: a creation starts when no
\* save is in flight; nothing is imported, saved again or deleted.
SeqCreate(p) ==
    /\ \A q \in Procs : ~Running(q)
    /\ Cardinality(store) < MaxSeq
    /\ Save(p, NewInstance(<<>>), TRUE)

NextSeq ==
    \/ \E p \in Procs : SeqCreate(p)
    \/ \E p \in Procs : SuperSave(p)

SeqSpec == Init /\ [][NextSeq]_vars

\* Creations through the form, interleaved, and deletions: every number in
\* the table was generated.
NextAlloc ==
    \/ \E p \in Procs : Create(p)
    \/ \E p \in Procs : SuperSave(p)
    \/ Delete

AllocSpec == Init /\ [][NextAlloc]_vars

\* Each request runs in its own worker and save() has no lock, wait or loop:
\* a request that stands before Model.save gets to call it.
FairAllocSpec == AllocSpec /\ \A p \in Procs : WF_vars(SuperSave(p))

\* ------------------------------------------------- RegistrationForm
\* str.lower on the letters of the emails below.
LowerChar(c) ==
    CASE c = "A" -> "a"
      [] c = "B" -> "b"
      [] OTHER -> c

Lower(s) == [i \in 1..Len(s) |-> LowerChar(s[i])]

\* Emails typed into the form: "a@x", "A@x" and "b@x".
TypedEmails ==
    { <<"a", "@", "x">>, <<"A", "@", "x">>, <<"b", "@", "x">> }

\* Registration.objects.filter(email=email).exists(): the comparison of the
\* database is exact, letter case included.
EmailExists(rows, email) == \E r \in rows : r.email = email

\* A request is in the form: cleaned and not yet saved, or in save().
InForm(p) == pc[p] \in {"cleaned", "super_save"}

FormMayStart == clock + Cardinality({q \in Procs : InForm(q)}) <= MaxClock

\* RegistrationForm.clean_email on a submission: a typed email that a row
\* holds is refused with "already registered"; otherwise the form is valid
\* and its instance carries the lower-cased email.
CleanEmail(p, typed) ==
    /\ ~InForm(p)
    /\ FormMayStart
    /\ IF EmailExists(store, typed)
       THEN /\ pc' = [pc EXCEPT ![p] = "invalid"]
            /\ inst' = [inst EXCEPT ![p] = NoInstance]
       ELSE /\ pc' = [pc EXCEPT ![p] = "cleaned"]
            /\ inst' = [inst EXCEPT ![p] =
                            [NewInstance(<<>>) EXCEPT !.email = Lower(typed)]]
    /\ UNCHANGED <<store, clock, adding, last_reg, new_num, issued>>
    /\ UNCHANGED site

\* form.save() of a valid form: Registration.save of its instance.
FormSave(p) ==
    /\ pc[p] = "cleaned"
    /\ Save(p, inst[p], TRUE)

\* Submissions whose validation and save may interleave.
NextForm ==
    \/ \E p \in Procs : \E typed \in TypedEmails : CleanEmail(p, typed)
    \/ \E p \in Procs : FormSave(p)
    \/ \E p \in Procs : SuperSave(p)

FormSpec == Init /\ [][NextForm]_vars

\* Submissions processed one at a time: a submission is validated when no
\* other is in the form.
SeqCleanEmail(p, typed) ==
    /\ \A q \in Procs : ~InForm(q)
    /\ CleanEmail(p, typed)

NextSeqForm ==
    \/ \E p \in Procs : \E typed \in TypedEmails : SeqCleanEmail(p, typed)
    \/ \E p \in Procs : FormSave(p)
    \/ \E p \in Procs : SuperSave(p)

SeqFormSpec == Init /\ [][NextSeqForm]_vars

\* ------------------------------------------- RegistrationAdmin actions
\* queryset.update(status=...): the rows of the selection get the status,
\* nothing else of any row changes.
UpdatedAll(rows, selected, status) ==
    {[r EXCEPT !.status = status] : r \in rows}

Updated(rows, selected, status) ==
    {IF r \in selected THEN [r EXCEPT !.status = status] ELSE r : r \in rows}

\* A bulk action of the change list run by request p on a selection (the
\* admin runs an action on a non-empty selection only): one UPDATE, and the
\* number of rows it matched is reported with message_user.
BulkAction(p, selected, status) ==
    /\ pc[p] \notin {"cleaned", "super_save", "nl_cleaned", "add_permitted"}
    /\ selected # {}
    /\ store' = Updated(store, selected, status)
    /\ message' = [message EXCEPT ![p] = Cardinality(selected)]
    /\ UNCHANGED <<clock, pc, inst, adding, last_reg, new_num, issued>>
    /\ UNCHANGED <<newsletter, nl_email, singletons, add_model, form>>

approve_registrations(p) ==
    \E selected \in SUBSET store : BulkAction(p, selected, "approved")

reject_registrations(p) ==
    \E selected \in SUBSET store : BulkAction(p, selected, "rejected")

move_to_waitlist(p) ==
    \E selected \in SUBSET store : BulkAction(p, selected, "waitlist")

\* A registration is created while no save is in flight and the table has
\* fewer than MaxRows rows.
AdminCreate(p) ==
    /\ \A q \in Procs : ~Running(q)
    /\ Cardinality(store) < MaxRows
    /\ Save(p, NewInstance(<<>>), TRUE)

\* Registrations are created one after another and the admin runs bulk
\* actions on them.
NextAdmin ==
    \/ \E p \in Procs : AdminCreate(p)
    \/ \E p \in Procs : SuperSave(p)
    \/ \E p \in Procs : approve_registrations(p)
    \/ \E p \in Procs : reject_registrations(p)
    \/ \E p \in Procs : move_to_waitlist(p)

AdminSpec == Init /\ [][NextAdmin]_vars

\* ------------------------------------------------ singleton admins
\* has_add_permission at the start of the admin add view of model m: denied
\* when the table has a row (the permission of the user is taken as given).
HasAddPermission(p, m) ==
    /\ pc[p] \notin {"cleaned", "super_save", "nl_cleaned", "add_permitted"}
    /\ IF singletons[m] > 0
       THEN /\ pc' = [pc EXCEPT ![p] = "add_denied"]
            /\ UNCHANGED add_model
       ELSE /\ pc' = [pc EXCEPT ![p] = "add_permitted"]
            /\ add_model' = [add_model EXCEPT ![p] = m]
    /\ UNCHANGED <<store, clock, inst, adding, last_reg, new_num, issued>>
    /\ UNCHANGED <<newsletter, nl_email, singletons, message, form>>

\* The add view saves the new object: one more row in the table.
AddSave(p) ==
    /\ pc[p] = "add_permitted"
    /\ singletons' = [singletons EXCEPT ![add_model[p]] = @ + 1]
    /\ pc' = [pc EXCEPT ![p] = "add_done"]
    /\ add_model' = [add_model EXCEPT ![p] = "none"]
    /\ UNCHANGED <<store, clock, inst, adding, last_reg, new_num, issued>>
    /\ UNCHANGED <<newsletter, nl_email, message, form>>

\* The admin deletes a row of model m.
DeleteSingleton(m) ==
    /\ singletons[m] > 0
    /\ singletons' = [singletons EXCEPT ![m] = @ - 1]
    /\ UNCHANGED <<store, clock, pc, inst, adding, last_reg, new_num, issued>>
    /\ UNCHANGED <<newsletter, nl_email, add_model, message, form>>

NextSingleton ==
    \/ \E p \in Procs : \E m \in SingletonModels : HasAddPermission(p, m)
    \/ \E p \in Procs : AddSave(p)
    \/ \E m \in SingletonModels : DeleteSingleton(m)

SingletonSpec == Init /\ [][NextSingleton]_vars

\* ------------------------------------- RegistrationForm: phone and dates
\* Registration.phone: max_length=17.
MaxPhoneLength == 17

\* The bounds of \d{9,15}.
MinPhoneDigits == 9
MaxPhoneDigits == 15

\* n times the character c.
Rep(c, n) == [i \in 1..n |-> c]

\* Phone values that reach clean_phone (not empty, at most max_length
\* characters): runs of the digit 2 or 1 of every length, bare or after "+",
\* "1" or "+1"; grouped with blanks, brackets and hyphens; with a letter; with
\* "+" in the middle or twice.
Phones ==
    { v \in
        UNION { { Rep(d, n),
                  <<"+">> \o Rep(d, n),
                  <<"1">> \o Rep(d, n),
                  <<"+", "1">> \o Rep(d, n),
                  <<"+", "1", " ">> \o Rep(d, n),
                  <<"(">> \o Rep(d, 3) \o <<")", " ">> \o Rep(d, n),
                  Rep(d, 3) \o <<"-">> \o Rep(d, n),
                  <<"a">> \o Rep(d, n),
                  Rep(d, 4) \o <<"+">> \o Rep(d, n),
                  <<"+", "+">> \o Rep(d, n) } :
                d \in {"1", "2"}, n \in 0..MaxPhoneLength } :
        Len(v) >= 1 /\ Len(v) <= MaxPhoneLength }

\* The date fields: 0 for None (the field left empty).
Dates == 0..MaxDate

\* re.sub(r"[^\d+]", "", phone): the value is scanned from the left and every
\* character that is neither a digit nor "+" is dropped.
RECURSIVE PhoneDigitsFrom(_, _)
PhoneDigitsFrom(phone, i) ==
    IF i > Len(phone) THEN <<>>
    ELSE IF phone[i] \in DigitChars \cup {"+"}
         THEN <<phone[i]>> \o PhoneDigitsFrom(phone, i + 1)
         ELSE PhoneDigitsFrom(phone, i + 1)

\* Nothing is removed before the match.
PhoneDigitsAsTyped(phone) == phone

PhoneDigits(phone) == PhoneDigitsFrom(phone, 1)

\* re.match(r"^\+?1?\d{9,15}$", t): some choice of taking "+" and of taking
\* "1" leaves 9 to 15 digits up to the end.
PhoneRegexMatches(t) ==
    \E plus \in {0, 1} : \E one \in {0, 1} :
        \E n \in MinPhoneDigits..MaxPhoneDigits :
            /\ plus + one + n = Len(t)
            /\ plus = 1 => t[1] = "+"
            /\ one = 1 => t[plus + 1] = "1"
            /\ \A k \in (plus + one + 1)..Len(t) : t[k] \in DigitChars

\* RegistrationForm.clean, line 156: the test under which it raises.
DepartureBeforeArrival(arrival_date, departure_date) ==
    arrival_date # 0 /\ departure_date # 0 /\ departure_date < arrival_date

DepartureNotAfterArrival(arrival_date, departure_date) ==
    arrival_date # 0 /\ departure_date # 0 /\ departure_date <= arrival_date

\* A form bound to submitted data, full_clean not yet run.
BoundForms ==
    { [NoForm EXCEPT !.phone = ph, !.arrival_date = a, !.departure_date = d,
                     !.step = "bound"] :
        ph \in Phones, a \in Dates, d \in Dates }

InitFields ==
    /\ store = {}
    /\ clock = 1
    /\ pc = [p \in Procs |-> "idle"]
    /\ inst = [p \in Procs |-> NoInstance]
    /\ adding = [p \in Procs |-> TRUE]
    /\ last_reg = [p \in Procs |-> {}]
    /\ new_num = [p \in Procs |-> -1]
    /\ issued = {}
    /\ newsletter = {}
    /\ nl_email = [p \in Procs |-> <<>>]
    /\ singletons = [m \in SingletonModels |-> 0]
    /\ add_model = [p \in Procs |-> "none"]
    /\ message = [p \in Procs |-> -1]
    /\ form \in BoundForms

\* RegistrationForm.clean_phone, run by full_clean for the field: the value
\* is returned as it came, or the field gets the error.
CleanPhone ==
    /\ form.step = "bound"
    /\ form' = IF PhoneRegexMatches(PhoneDigits(form.phone))
               THEN [form EXCEPT !.step = "fields_cleaned",
                                 !.cleaned_phone = form.phone]
               ELSE [form EXCEPT !.step = "fields_cleaned",
                                 !.errors = @ \cup {"phone"}]
    /\ UNCHANGED <<store, clock, pc, inst, adding, last_reg, new_num, issued>>
    /\ UNCHANGED <<newsletter, nl_email, singletons, add_model, message>>

\* RegistrationForm.clean, run by full_clean after the fields: the form gets
\* the error when both dates are given and the departure is not after the
\* arrival.
Clean ==
    /\ form.step = "fields_cleaned"
    /\ form' = IF DepartureNotAfterArrival(form.arrival_date, form.departure_date)
               THEN [form EXCEPT !.step = "cleaned",
                                 !.errors = @ \cup {"__all__"}]
               ELSE [form EXCEPT !.step = "cleaned"]
    /\ UNCHANGED <<store, clock, pc, inst, adding, last_reg, new_num, issued>>
    /\ UNCHANGED <<newsletter, nl_email, singletons, add_model, message>>

NextFields == CleanPhone \/ Clean

FieldsSpec == InitFields /\ [][NextFields]_vars

\* --------------------------------------------------- NewsletterForm
\* NewsletterForm.clean_email, line 240: the email is lower-cased before it
\* is looked up and stored.
NewsletterCleanedAsTyped(typed) == typed

NewsletterCleaned(typed) == Lower(typed)

\* Newsletter.objects.filter(email=email).exists(), and unique=True on
\* Newsletter.email: exact comparisons.
NewsletterExists(rows, email) == \E r \in rows : r.email = email

\* NewsletterForm validation of a submission: a lower-cased email that a row
\* holds is refused with "already subscribed"; otherwise the form is valid.
NewsletterClean(p, typed) ==
    /\ pc[p] \notin {"cleaned", "super_save", "nl_cleaned", "add_permitted"}
    /\ IF NewsletterExists(newsletter, NewsletterCleaned(typed))
       THEN /\ pc' = [pc EXCEPT ![p] = "nl_invalid"]
            /\ UNCHANGED nl_email
       ELSE /\ pc' = [pc EXCEPT ![p] = "nl_cleaned"]
            /\ nl_email' = [nl_email EXCEPT ![p] = NewsletterCleaned(typed)]
    /\ UNCHANGED <<store, clock, inst, adding, last_reg, new_num, issued>>
    /\ UNCHANGED <<newsletter, singletons, add_model, message, form>>

\* form.save() of a valid NewsletterForm: the INSERT, which the unique
\* constraint on email refuses when a row holds the email.
NewsletterSave(p) ==
    /\ pc[p] = "nl_cleaned"
    /\ IF NewsletterExists(newsletter, nl_email[p])
       THEN /\ pc' = [pc EXCEPT ![p] = "nl_failed"]
            /\ UNCHANGED newsletter
       ELSE /\ pc' = [pc EXCEPT ![p] = "nl_done"]
            /\ newsletter' = newsletter \cup
                   {[id |-> Cardinality(newsletter) + 1, email |-> nl_email[p]]}
    /\ nl_email' = [nl_email EXCEPT ![p] = <<>>]
    /\ UNCHANGED <<store, clock, inst, adding, last_reg, new_num, issued>>
    /\ UNCHANGED <<singletons, add_model, message, form>>

NextNewsletter ==
    \/ \E p \in Procs : \E typed \in TypedEmails : NewsletterClean(p, typed)
    \/ \E p \in Procs : NewsletterSave(p)

NewsletterSpec == Init /\ [][NextNewsletter]_vars

\* Registration numbers of rows that save() did not number: the values of
\* HandSupplied, a foreign prefix ("OLD-0007"), no separator ("12"), and
\* well-formed numbers at chosen places of the sequence.
LegacyNumbers ==
    HandSupplied \cup
    { <<"O", "L", "D", "-", "0", "0", "0", "7">>,
      <<"1", "2">>,
      PREFIX \o <<"-", "0", "0", "0", "1">>,
      PREFIX \o <<"-", "0", "0", "0", "3">>,
      PREFIX \o <<"-", "0", "0", "4", "1">>,
      PREFIX \o <<"-", "9", "9", "9", "9">>,
      PREFIX \o <<"-", "1", "2", "3", "4", "4">> }

\* The i-th row of a table, created at time i.
TableRow(i, number) ==
    [id |-> i, created_at |-> i, registration_number |-> number,
     status |-> "pending", email |-> <<>>]

\* The tables of at most MaxRows rows whose numbers are legacy numbers or
\* blank (the column is blank=True, and line 493 tests for a blank number),
\* no number twice (unique=True).
Tables ==
    UNION { { {TableRow(i, f[i]) : i \in 1..n} :
                f \in {g \in [1..n -> LegacyNumbers \cup {<<>>}] :
                          \A i \in 1..n : \A j \in 1..n :
                              g[i] = g[j] => i = j} } :
            n \in 0..MaxRows }

\* The allocator as a function of the table: any table of Tables, no request
\* in flight.
InitTable ==
    /\ store \in Tables
    /\ clock = Cardinality(store) + 1
    /\ pc = [p \in Procs |-> "idle"]
    /\ inst = [p \in Procs |-> NoInstance]
    /\ adding = [p \in Procs |-> TRUE]
    /\ last_reg = [p \in Procs |-> {}]
    /\ new_num = [p \in Procs |-> -1]
    /\ issued = {r.registration_number : r \in store}
    /\ SiteInit

\* A registration is created on the table, one at a time.
TableCreate(p) ==
    /\ \A q \in Procs : ~Running(q)
    /\ Cardinality(store) <= MaxRows
    /\ Save(p, NewInstance(<<>>), TRUE)

NextTable ==
    \/ \E p \in Procs : TableCreate(p)
    \/ \E p \in Procs : SuperSave(p)

TableSpec == InitTable /\ [][NextTable]_vars

\* ------------------------------------------------------------ properties

\* The numeric suffix read off a registration number: the decimal value of
\* the digits that follow its last "-".
HasNumericSuffix(s) ==
    \E i \in 1..(Len(s) - 1) :
        /\ s[i] = "-"
        /\ \A j \in (i + 1)..Len(s) : s[j] \in DigitChars

SuffixOf(s) ==
    LET i == CHOOSE k \in 1..(Len(s) - 1) :
                 s[k] = "-" /\ \A j \in (k + 1)..Len(s) : s[j] \in DigitChars
    IN DigitsValue(SubSeq(s, i + 1, Len(s)), 0)

NumbersIn(rows) == {r.registration_number : r \in rows}

TCP2025_0001 == PREFIX \o <<"-", "0", "0", "0", "1">>

\* C1: N registrations created strictly one after another from an empty
\* table are all persisted, and their numeric suffixes are exactly 1..N in
\* creation order, without gap or repeat.
SequentialSuffixes ==
    /\ \A p \in Procs : pc[p] # "failed"
    /\ \A r \in store :
        /\ HasNumericSuffix(r.registration_number)
        /\ SuffixOf(r.registration_number) = r.created_at
    /\ {r.created_at : r \in store} = 1..Cardinality(store)

\* C1 witness: twelve sequential creations are persisted, the twelfth as
\* TCP2025-0012.
SequentialSuffixesWitness ==
    /\ Cardinality(store) = 12
    /\ \E r \in store :
        /\ r.created_at = 12
        /\ r.registration_number = PREFIX \o <<"-", "0", "0", "1", "2">>

\* C2: in every reachable state no two rows of the table hold the same
\* registration_number.
UniqueNumbers ==
    \A a \in store : \A b \in store :
        a.registration_number = b.registration_number => a = b

\* C2 witness: a save was rejected by the unique constraint while the table
\* holds rows.
UniqueNumbersWitness ==
    /\ \E p \in Procs : pc[p] = "failed"
    /\ Cardinality(store) >= 2

\* C3: of the creations submitted concurrently, every one ends with its row
\* persisted under an identifier, and the identifiers are pairwise distinct:
\* no creation is rejected.
ConcurrentCreationsAllPersisted ==
    /\ \A p \in Procs : pc[p] # "failed"
    /\ \A a \in store : \A b \in store :
        a.registration_number = b.registration_number => a = b

\* C4: a registration number that a row was once inserted with is never
\* given to a later registration, whatever was deleted in between.
NeverReused ==
    [][\A p \in Procs :
          (pc[p] = "super_save" /\ adding[p] /\ new_num[p] # -1 /\ pc'[p] = "done")
              => inst[p].registration_number \notin issued]_vars

\* C5: for any two rows with generated numbers, the one created earlier has
\* the smaller numeric suffix.
CreationOrderIsSuffixOrder ==
    \A a \in store : \A b \in store :
        ( /\ HasNumericSuffix(a.registration_number)
          /\ HasNumericSuffix(b.registration_number)
          /\ a.created_at < b.created_at )
            => SuffixOf(a.registration_number) < SuffixOf(b.registration_number)

\* C6: the number generated for a new registration differs from the number
\* of every row in the table at the moment it is generated.
CandidateAbsentFromStore ==
    [][\A p \in Procs :
          (~Running(p) /\ pc'[p] = "super_save" /\ new_num'[p] # -1)
              => inst'[p].registration_number \notin NumbersIn(store)]_vars

\* A request starts with this step: it runs Registration.save up to line 501.
Starts(p) == ~Running(p) /\ pc'[p] = "super_save"

\* C7: a save of a registration that already has a registration_number
\* generates nothing (last_reg and new_num stay unbound, the instance keeps
\* its number), and no step changes the number of a row of the table.
NumberAssignedOnce ==
    [][ /\ \A p \in Procs :
              (Starts(p) /\ ~adding'[p]) =>
                  /\ new_num'[p] = -1
                  /\ last_reg'[p] = {}
                  /\ inst'[p] \in store
        /\ \A r \in store : \A t \in store' :
              r.id = t.id => r.registration_number = t.registration_number ]_vars

\* C7 witness: a row saved again stands before Model.save with an older row
\* and a newer row beside it, and the row itself unchanged in the table.
NumberAssignedOnceWitness ==
    \E p \in Procs :
        /\ pc[p] = "super_save"
        /\ ~adding[p]
        /\ inst[p] \in store
        /\ inst[p].registration_number = TCP2025_0001
        /\ \E r \in store : r.created_at > inst[p].created_at

\* C8: a creation that finds the table empty is given TCP2025-0001.
FirstNumber ==
    [][\A p \in Procs :
          (Starts(p) /\ new_num'[p] # -1 /\ store = {})
              => inst'[p].registration_number = TCP2025_0001]_vars

\* C8 witness: the first creation stands before Model.save with
\* TCP2025-0001, the table still empty.
FirstNumberWitness ==
    \E p \in Procs :
        /\ pc[p] = "super_save"
        /\ store = {}
        /\ issued = {}
        /\ new_num[p] = 1
        /\ inst[p].registration_number = TCP2025_0001

\* C9: when the most recently created row has a number whose text after the
\* last "-" is the integer k, the number generated next has suffix k + 1,
\* whatever the suffixes of the older rows.
NextAfterLatest ==
    [][\A p \in Procs : \A l \in store :
          ( /\ Starts(p)
            /\ new_num'[p] # -1
            /\ \A o \in store : o.created_at <= l.created_at
            /\ HasNumericSuffix(l.registration_number) )
              => /\ HasNumericSuffix(inst'[p].registration_number)
                 /\ SuffixOf(inst'[p].registration_number)
                        = SuffixOf(l.registration_number) + 1
                 /\ SubSeq(inst'[p].registration_number, 1, 8) = PREFIX \o <<"-">>]_vars

\* C9 witness: TCP2025-0002 is generated after the latest row TCP2025-0001
\* while an older row holds TCP2025-0007.
NextAfterLatestWitness ==
    \E p \in Procs : \E l \in store : \E o \in store :
        /\ pc[p] = "super_save"
        /\ last_reg[p] = {l}
        /\ l.registration_number = TCP2025_0001
        /\ o.created_at < l.created_at
        /\ o.registration_number = PREFIX \o <<"-", "0", "0", "0", "7">>
        /\ inst[p].registration_number = PREFIX \o <<"-", "0", "0", "0", "2">>

\* The text after the last "-" of s (all of s without one) is not an integer:
\* it is empty or holds a character that is no digit.
TrailingSegmentNotInteger(s) ==
    \E i \in 0..Len(s) :
        /\ i = 0 \/ s[i] = "-"
        /\ \A j \in (i + 1)..Len(s) : s[j] # "-"
        /\ i = Len(s) \/ \E j \in (i + 1)..Len(s) : s[j] \notin DigitChars

\* C10: when the latest row's number ends in a segment that is not an
\* integer, the save goes on to Model.save with new_num = 1 and the number
\* TCP2025-0001.
MalformedFallsBackToOne ==
    [][\A p \in Procs : \A l \in store :
          ( /\ Starts(p)
            /\ new_num'[p] # -1
            /\ \A o \in store : o.created_at <= l.created_at
            /\ l.registration_number # <<>>
            /\ TrailingSegmentNotInteger(l.registration_number) )
              => /\ new_num'[p] = 1
                 /\ inst'[p].registration_number = TCP2025_0001]_vars

\* C10 witness: "garbage" is the latest number, "TCP2025-" an older one, and
\* the creation stands before Model.save with TCP2025-0001.
MalformedFallsBackToOneWitness ==
    \E p \in Procs : \E l \in store : \E o \in store :
        /\ pc[p] = "super_save"
        /\ last_reg[p] = {l}
        /\ l.registration_number = <<"g", "a", "r", "b", "a", "g", "e">>
        /\ o.registration_number = PREFIX \o <<"-">>
        /\ new_num[p] = 1
        /\ inst[p].registration_number = TCP2025_0001

\* The text after the last "-" of s, all of s without one, starts after this
\* position.
TrailingStart(s) ==
    CHOOSE i \in 0..Len(s) :
        /\ i = 0 \/ s[i] = "-"
        /\ \A j \in (i + 1)..Len(s) : s[j] # "-"

\* That text is one or more decimal digits, and its value.
TrailingDigits(s) ==
    /\ TrailingStart(s) < Len(s)
    /\ \A j \in (TrailingStart(s) + 1)..Len(s) : s[j] \in DigitChars

TrailingValue(s) == DigitsValue(SubSeq(s, TrailingStart(s) + 1, Len(s)), 0)

\* s has the form TCP2025-NNNN: the prefix, "-", and four or more digits.
MatchesPattern(s) ==
    /\ Len(s) >= 12
    /\ SubSeq(s, 1, 8) = PREFIX \o <<"-">>
    /\ \A j \in 9..Len(s) : s[j] \in DigitChars

\* Request p starts a creation whose number is generated, and l is the latest
\* row of the table it reads.
GeneratesAfter(p, l) ==
    /\ Starts(p)
    /\ new_num'[p] # -1
    /\ l \in store
    /\ \A o \in store : o.created_at <= l.created_at

NumDigits(n) == CHOOSE d \in 1..9 : 10 ^ (d - 1) <= n /\ n < 10 ^ d

\* C12: the generated number is "TCP2025-" followed by the decimal suffix
\* left-padded with zeros to at least 4 digits: 42 gives TCP2025-0042, and a
\* suffix of 10000 or more is written in full (12345 gives TCP2025-12345,
\* TCP2025-9999 is followed by TCP2025-10000).
PaddedToFourDigits ==
    [][\A p \in Procs :
          (Starts(p) /\ new_num'[p] # -1) =>
              LET n == new_num'[p]
                  s == inst'[p].registration_number
              IN /\ n >= 1
                 /\ SubSeq(s, 1, 8) = PREFIX \o <<"-">>
                 /\ \A j \in 9..Len(s) : s[j] \in DigitChars
                 /\ Len(s) - 8 = (IF NumDigits(n) < 4 THEN 4 ELSE NumDigits(n))
                 /\ DigitsValue(SubSeq(s, 9, Len(s)), 0) = n
                 /\ n = 42 => s = PREFIX \o <<"-", "0", "0", "4", "2">>
                 /\ n = 12345 => s = PREFIX \o <<"-", "1", "2", "3", "4", "5">>
                 /\ (\E l \in store :
                        /\ \A o \in store : o.created_at <= l.created_at
                        /\ l.registration_number = PREFIX \o <<"-", "9", "9", "9", "9">>)
                      => s = PREFIX \o <<"-", "1", "0", "0", "0", "0">>]_vars

\* C12 witness: after the latest number TCP2025-9999 the creation stands
\* before Model.save with TCP2025-10000, and TCP2025-0041 is an older row.
PaddedToFourDigitsWitness ==
    \E p \in Procs : \E o \in store :
        /\ pc[p] = "super_save"
        /\ new_num[p] = 10000
        /\ inst[p].registration_number = PREFIX \o <<"-", "1", "0", "0", "0", "0">>
        /\ o.registration_number = PREFIX \o <<"-", "0", "0", "4", "1">>

\* C13: the allocation run again on a table whose latest row is the one an
\* earlier run read, that run's request still in flight, yields the same
\* candidate: the candidate depends on the current table only.
SameTableSameCandidate ==
    [][\A p \in Procs : \A q \in Procs \ {p} :
          ( /\ pc[p] = "super_save"
            /\ new_num[p] # -1
            /\ last_reg[p] = {l \in store : \A o \in store : o.created_at <= l.created_at}
            /\ Starts(q)
            /\ new_num'[q] # -1 )
              => /\ new_num'[q] = new_num[p]
                 /\ inst'[q].registration_number = inst[p].registration_number]_vars

\* C13 witness: a row was inserted and deleted again, and two requests that
\* ran the allocation on the same empty table hold the same candidate.
SameTableSameCandidateWitness ==
    \E p \in Procs : \E q \in Procs \ {p} :
        /\ pc[p] = "super_save"
        /\ pc[q] = "super_save"
        /\ store = {}
        /\ issued # {}
        /\ last_reg[p] = {}
        /\ last_reg[q] = {}
        /\ new_num[p] = 1
        /\ new_num[q] = 1
        /\ inst[p].registration_number = inst[q].registration_number

\* C14: when the insert of a generated number is rejected by the unique
\* constraint, the request does not end with the error: it goes back to read
\* the latest row again.
RejectedInsertIsRetried ==
    [][\A p \in Procs :
          (pc[p] = "super_save" /\ adding[p] /\ new_num[p] # -1
             /\ inst[p].registration_number \in NumbersIn(store))
              => pc'[p] # "failed"]_vars

\* C15: two creations in flight that read the same latest row hold the same
\* candidate.
SameLatestSameCandidate ==
    \A p \in Procs : \A q \in Procs :
        ( /\ pc[p] = "super_save"
          /\ pc[q] = "super_save"
          /\ new_num[p] # -1
          /\ new_num[q] # -1
          /\ last_reg[p] = last_reg[q] )
            => inst[p].registration_number = inst[q].registration_number

\* C15 witness: both creations read the latest row TCP2025-0001 before either
\* inserted, and both hold TCP2025-0002.
SameLatestSameCandidateWitness ==
    \E p \in Procs : \E q \in Procs \ {p} : \E l \in store :
        /\ pc[p] = "super_save"
        /\ pc[q] = "super_save"
        /\ last_reg[p] = {l}
        /\ last_reg[q] = {l}
        /\ l.registration_number = TCP2025_0001
        /\ inst[p].registration_number = PREFIX \o <<"-", "0", "0", "0", "2">>
        /\ inst[q].registration_number = PREFIX \o <<"-", "0", "0", "0", "2">>

\* C16: when the number generated for a new registration is already the
\* number of a row at the time of the insert, the request ends with the error
\* and the table is left as it was: no row added, no row changed.
RejectedInsertChangesNothing ==
    [][\A p \in Procs :
          ( /\ pc[p] = "super_save"
            /\ adding[p]
            /\ new_num[p] # -1
            /\ inst[p].registration_number \in NumbersIn(store)
            /\ pc'[p] # pc[p] )
              => /\ pc'[p] = "failed"
                 /\ store' = store]_vars

\* C16 witness: a creation was rejected, and the one row of the table is the
\* one inserted first, under TCP2025-0001 at time 1.
RejectedInsertChangesNothingWitness ==
    \E p \in Procs :
        /\ pc[p] = "failed"
        /\ store = {[id |-> 1, created_at |-> 1,
                     registration_number |-> TCP2025_0001,
                     status |-> "pending", email |-> <<>>]}
        /\ issued = {TCP2025_0001}

\* C17: the base is the latest row among those with a number: when that row
\* holds TCP2025-NNNN of value k, the next suffix is k + 1, also when rows
\* with a blank number were created after it.
LatestNumberedIsBase ==
    [][\A p \in Procs : \A l \in store :
          ( /\ Starts(p)
            /\ new_num'[p] # -1
            /\ l.registration_number # <<>>
            /\ \A o \in store :
                  o.registration_number # <<>> => o.created_at <= l.created_at
            /\ MatchesPattern(l.registration_number) )
              => new_num'[p] = TrailingValue(l.registration_number) + 1]_vars

\* C18: when the trailing text of the latest number is no integer and a row
\* holds TCP2025-0001, the generated number is TCP2025-0001 again, the number
\* of that row.
FallbackRepeatsFirstNumber ==
    [][\A p \in Procs : \A l \in store :
          ( /\ GeneratesAfter(p, l)
            /\ l.registration_number # <<>>
            /\ TrailingSegmentNotInteger(l.registration_number)
            /\ \E o \in store : o.registration_number = TCP2025_0001 )
              => \E o \in store :
                    /\ o.registration_number = TCP2025_0001
                    /\ inst'[p].registration_number = o.registration_number]_vars

\* C18 witness: the latest number is "garbage", an older row holds
\* TCP2025-0001, and the creation stands before Model.save with TCP2025-0001.
FallbackRepeatsFirstNumberWitness ==
    \E p \in Procs : \E l \in store : \E o \in store :
        /\ pc[p] = "super_save"
        /\ last_reg[p] = {l}
        /\ l.registration_number = <<"g", "a", "r", "b", "a", "g", "e">>
        /\ o.registration_number = TCP2025_0001
        /\ o.created_at < l.created_at
        /\ inst[p].registration_number = o.registration_number

\* C19: generating the number writes nothing, and a successful creation
\* leaves the table as the previous table plus exactly one row, which holds
\* the generated number: every previous row is still there with its number
\* and its created_at.
CreationAddsOneRow ==
    [][\A p \in Procs :
          /\ Starts(p) => store' = store
          /\ ( /\ pc[p] = "super_save"
               /\ adding[p]
               /\ new_num[p] # -1
               /\ pc'[p] = "done" )
                 => /\ store \subseteq store'
                    /\ Cardinality(store') = Cardinality(store) + 1
                    /\ \E r \in store' \ store :
                          /\ r.registration_number = inst[p].registration_number
                          /\ store' = store \cup {r}]_vars

\* C19 witness: a creation that read the latest row TCP2025-0001 ended with
\* its row inserted as TCP2025-0002 at a later time, the first row unchanged.
CreationAddsOneRowWitness ==
    \E p \in Procs : \E a \in store : \E b \in store :
        /\ pc[p] = "done"
        /\ a.registration_number = TCP2025_0001
        /\ a.created_at = 1
        /\ b.registration_number = PREFIX \o <<"-", "0", "0", "0", "2">>
        /\ b.created_at > a.created_at
        /\ store = {a, b}

\* C20: a creation that stands before Model.save can always take that step,
\* whatever the other requests do, and every started creation ends, with its
\* row inserted or with the rejection.
EveryCreationFinishes ==
    /\ [](\A p \in Procs : pc[p] = "super_save" => ENABLED SuperSave(p))
    /\ \A p \in Procs :
          (pc[p] = "super_save") ~> (pc[p] \in {"done", "failed"})

\* C20 witness: of the creations started together, one ended with its row
\* inserted and the other with the rejection; none is in flight.
EveryCreationFinishesWitness ==
    /\ {pc[p] : p \in Procs} = {"done", "failed"}
    /\ Cardinality(store) = 1
    /\ issued = {TCP2025_0001}

\* C21: in a table changed only by creations numbered by save() and by
\* deletions, the row created last holds the greatest numeric suffix of the
\* table.
LatestHoldsGreatestSuffix ==
    \A l \in store :
        (\A o \in store : o.created_at <= l.created_at)
            => \A o \in store :
                  SuffixOf(o.registration_number) <= SuffixOf(l.registration_number)

\* C22: a registration saved with a number already set keeps it. The
\* generator does not run for it (a row saved again keeps the number it was
\* read with, an imported row the number it brought), the number is written
\* as given, whatever its form, and when the row is the latest, the next
\* generated number continues from it.
SuppliedNumberKept ==
    [][\A p \in Procs :
          /\ (Starts(p) /\ ~adding'[p])
                => /\ new_num'[p] = -1
                   /\ \E r \in store :
                         /\ r.id = inst'[p].id
                         /\ inst'[p].registration_number = r.registration_number
          /\ (Starts(p) /\ adding'[p] /\ new_num'[p] = -1)
                => inst'[p].registration_number \in HandSupplied
          /\ (pc[p] = "super_save" /\ new_num[p] = -1 /\ pc'[p] = "done")
                => \E r \in store' :
                      /\ r.registration_number = inst[p].registration_number
                      /\ adding[p] => r \notin store
          /\ \A l \in store :
                ( /\ GeneratesAfter(p, l)
                  /\ l.registration_number = PREFIX \o <<"-", "0", "0", "0", "7">> )
                    => inst'[p].registration_number =
                          PREFIX \o <<"-", "0", "0", "0", "8">>]_vars

\* C22 witness: the imported "garbage" and TCP2025-0007 are rows as given,
\* and a creation that read TCP2025-0007 as the latest row holds TCP2025-0008.
SuppliedNumberKeptWitness ==
    \E p \in Procs : \E l \in store : \E o \in store :
        /\ pc[p] = "super_save"
        /\ last_reg[p] = {l}
        /\ l.registration_number = PREFIX \o <<"-", "0", "0", "0", "7">>
        /\ o.registration_number = <<"g", "a", "r", "b", "a", "g", "e">>
        /\ inst[p].registration_number = PREFIX \o <<"-", "0", "0", "0", "8">>

\* C30: every generated number is "TCP2025-" followed by digits of value 1
\* or more, whatever the latest number is: its prefix is not copied, and the
\* text the base is parsed from holds no "-", so the base is never negative.
GeneratedNumberWellFormed ==
    [][\A p \in Procs :
          (Starts(p) /\ new_num'[p] # -1) =>
              /\ new_num'[p] >= 1
              /\ MatchesPattern(inst'[p].registration_number)
              /\ TrailingValue(inst'[p].registration_number) = new_num'[p]
              /\ \A l \in last_reg'[p] :
                    \A i \in 1..Len(LastSegment(l.registration_number)) :
                        LastSegment(l.registration_number)[i] # "-"]_vars

\* C30 witness: after the latest number "OLD-0007" and an older "garbage" the
\* creation holds TCP2025-0008.
GeneratedNumberWellFormedWitness ==
    \E p \in Procs : \E l \in store : \E o \in store :
        /\ pc[p] = "super_save"
        /\ last_reg[p] = {l}
        /\ l.registration_number = <<"O", "L", "D", "-", "0", "0", "0", "7">>
        /\ o.registration_number = <<"g", "a", "r", "b", "a", "g", "e">>
        /\ new_num[p] >= 1
        /\ inst[p].registration_number = PREFIX \o <<"-", "0", "0", "0", "8">>

\* C23: after submissions of the form processed one at a time, no two rows
\* hold the same stored email, also when the submissions differ in letter
\* case only.
StoredEmailsDistinct ==
    \A a \in store : \A b \in store : a.email = b.email => a = b

\* C24: of concurrent submissions of the form with the same email, at most
\* one ends as a row with that email.
AtMostOneRowPerEmail ==
    \A e \in {r.email : r \in store} :
        Cardinality({r \in store : r.email = e}) <= 1

\* C25: no two newsletter rows created through the form hold emails that
\* are equal up to letter case, however the submissions interleave; a valid
\* submission whose email a row holds by the time of its insert ends with the
\* rejection and adds no row.
NewsletterEmailsDistinct ==
    [][/\ \A a \in newsletter' : \A b \in newsletter' :
             Lower(a.email) = Lower(b.email) => a = b
       /\ \A p \in Procs :
             ( /\ pc[p] = "nl_cleaned"
               /\ pc'[p] # pc[p]
               /\ \E r \in newsletter : Lower(r.email) = Lower(nl_email[p]) )
                 => pc'[p] = "nl_failed" /\ newsletter' = newsletter]_vars

\* C25 witness: two submissions of the same address were both valid; one is
\* the row "a@x", the other ended with the rejection of its insert.
NewsletterEmailsDistinctWitness ==
    \E p \in Procs : \E q \in Procs \ {p} :
        /\ pc[p] = "nl_done"
        /\ pc[q] = "nl_failed"
        /\ newsletter = {[id |-> 1, email |-> <<"a", "@", "x">>]}

\* C26: clean rejects the form exactly when both dates are given and the
\* departure is on or before the arrival; with a date missing it passes; a
\* form that clean passed with both dates has its departure after its
\* arrival.
DatesRejectedExactly ==
    [][(form.step = "fields_cleaned" /\ form'.step = "cleaned") =>
          LET a == form.arrival_date
              d == form.departure_date
              rejected == "__all__" \in form'.errors
          IN /\ rejected <=> (a \in 1..MaxDate /\ d \in 1..MaxDate /\ ~(d > a))
             /\ (a = 0 \/ d = 0) => ~rejected
             /\ (a = d /\ a # 0) => rejected
             /\ (~rejected /\ a # 0 /\ d # 0) => d > a]_vars

\* C26 witness: a form with equal arrival and departure day was rejected by
\* clean.
DatesRejectedExactlyWitness ==
    /\ form.step = "cleaned"
    /\ form.arrival_date = 2
    /\ form.departure_date = 2
    /\ "__all__" \in form.errors

\* The characters of s that are digits or "+", in order.
IsDigitOrPlus(c) == c \in DigitChars \/ c = "+"

Remainder(s) == SelectSeq(s, IsDigitOrPlus)

\* t without one leading "+".
AfterPlus(t) == IF t # <<>> /\ Head(t) = "+" THEN Tail(t) ELSE t

\* t is an optional "+", an optional "1", then 9 to 15 digits.
PlusOneDigits(t) ==
    LET r == AfterPlus(t)
    IN /\ \A k \in 1..Len(r) : r[k] \in DigitChars
       /\ \/ Len(r) \in 9..15
          \/ Len(r) = 16 /\ r[1] = "1"

\* C27: clean_phone accepts the value exactly when what is left of it after
\* dropping every character other than digits and "+" is an optional "+", an
\* optional "1" and 9 to 15 digits, and then returns the value as submitted,
\* dropped characters included.
PhoneAcceptedExactly ==
    [][(form.step = "bound" /\ form'.step = "fields_cleaned") =>
          /\ ("phone" \notin form'.errors) <=> PlusOneDigits(Remainder(form.phone))
          /\ ("phone" \notin form'.errors) => form'.cleaned_phone = form.phone]_vars

\* C27 witness: "+1 " followed by ten digits was accepted and returned with
\* its blank.
PhoneAcceptedExactlyWitness ==
    /\ form.step = "fields_cleaned"
    /\ form.phone = <<"+", "1", " ">> \o Rep("2", 10)
    /\ "phone" \notin form.errors
    /\ form.cleaned_phone = <<"+", "1", " ">> \o Rep("2", 10)

AtMostOneSingleton ==
    \A m \in SingletonModels : singletons[m] <= 1

====
